---------------------------- MODULE Spec2Model ----------------------------
(***************************************************************************)
(* Model of calendar_manager.py: the credential lifecycle of               *)
(* CalendarManager.authenticate, the four calendar operations and the      *)
(* command dispatch of main().  One process invocation runs                *)
(*   main -> authenticate (load, refresh | consent, save, build)           *)
(*        -> one handler -> exit                                           *)
(* The token file, the client-secret file and the remote calendar outlive  *)
(* the process; several invocations follow each other.                     *)
(***************************************************************************)
EXTENDS Integers, Sequences, FiniteSets, TLC

VARIABLES
    pc,               \* position of the running process
    command,          \* args.command
    args,             \* arguments the handler was called with
    creds,            \* local `creds` of authenticate (None or a Credential)
    loaded,           \* what pickle.load returned in this process
    service,          \* self.service: None, or the Credential it was built from
    out,              \* lines printed by the program, as tags
    exc,              \* the exception that escaped main(), if any
    result,           \* return value of the handler
    requests,         \* requests sent to the calendar service by this process
    refreshCount,     \* calls of creds.refresh in this process
    consentCount,     \* calls of flow.run_local_server in this process
    secretReads,      \* calls of from_client_secrets_file in this process
    tokenWrites,      \* opens of TOKEN_FILE for writing in this process
    tokenFile,        \* token.pickle: absent, or its bytes
    credentialsFile,  \* credentials.json exists
    remote,           \* the primary calendar: event id -> event
    nextId,           \* next id the calendar service hands out
    deleted,          \* ids this program deleted successfully
    nextToken,        \* next access token the authorization server issues
    runs              \* process invocations so far

vars == <<pc, command, args, creds, loaded, service, out, exc, result, requests,
          refreshCount, consentCount, secretReads, tokenWrites, tokenFile,
          credentialsFile, remote, nextId, deleted, nextToken, runs>>

procVars == <<command, args, creds, loaded, service, out, exc, result, requests,
              refreshCount, consentCount, secretReads, tokenWrites>>

envVars == <<tokenFile, credentialsFile, remote, nextId, deleted, nextToken>>

----------------------------------------------------------------------------
(* Bounds *)

MaxRuns == 2
MaxEvents == 2

----------------------------------------------------------------------------
(* Python values *)

None == <<>>
Some(v) == <<v>>

(* Truthiness of an optional argument: None and the empty string are falsy. *)
(* Titles and descriptions are strings, date-times are sequences of parts.  *)
TruthyStr(o) == o # None /\ o[1] # ""
TruthySeq(o) == o # None /\ Len(o[1]) > 0

----------------------------------------------------------------------------
(* Credentials and the token file *)

(* google.oauth2.credentials.Credentials as authenticate reads it: the    *)
(* access token (0 is None), whether its expiry has passed, and whether   *)
(* there is a refresh token.  creds.valid is "has a token, not expired".  *)
CredsExpired(c) == c.expired
CredsValid(c) == c.token # 0 /\ ~CredsExpired(c)

(* pickle.dump / pickle.load of a Credentials object. *)
pickle_dump(c) == <<"pickle", c.token, c.expired, c.refresh_token>>

pickle_load(bytes) ==
    IF Len(bytes) = 4 /\ bytes[1] = "pickle"
    THEN [ok |-> TRUE,
          value |-> [token |-> bytes[2], expired |-> bytes[3], refresh_token |-> bytes[4]]]
    ELSE [ok |-> FALSE]

Garbage == <<"garbage">>
Truncated == <<>>

(* line 38: if not creds or not creds.valid *)
\* faulty variant: `not` dropped before creds.valid
NeedsAuthInverted(c) == IF c = None THEN TRUE ELSE CredsValid(c[1])
NeedsAuth(c) == IF c = None THEN TRUE ELSE ~CredsValid(c[1])

(* line 39: if creds and creds.expired and creds.refresh_token *)
\* faulty variant: the refresh token test negated
CanRefreshNegated(c) == IF c = None THEN FALSE ELSE CredsExpired(c[1]) /\ ~c[1].refresh_token
CanRefresh(c) == IF c = None THEN FALSE ELSE CredsExpired(c[1]) /\ c[1].refresh_token

(* line 42: if not os.path.exists(CREDENTIALS_FILE) *)
\* faulty variant: the existence test left out
CredentialsMissingUnchecked(exists) == FALSE
CredentialsMissing(exists) == ~exists

----------------------------------------------------------------------------
(* Date-time strings.  A string is the sequence of its lexical parts:      *)
(* "2024-01-01T09:00:00" is <<"2024-01-01", "T", "09:00:00">>, "" is <<>>. *)

Dates == {"2024-01-01"}
Times == {"09:00:00", "10:00:00"}
Separators == {"T", " "}

(* datetime.fromisoformat: a date alone is midnight, any separator between *)
(* date and time is accepted, everything else raises ValueError.           *)
fromisoformat(s) ==
    IF Len(s) = 1 /\ s[1] \in Dates
    THEN [ok |-> TRUE, value |-> [date |-> s[1], time |-> "00:00:00"]]
    ELSE IF Len(s) = 3 /\ s[1] \in Dates /\ s[2] \in Separators /\ s[3] \in Times
    THEN [ok |-> TRUE, value |-> [date |-> s[1], time |-> s[3]]]
    ELSE [ok |-> FALSE]

(* datetime.isoformat *)
isoformat(dt) == <<dt.date, "T", dt.time>>

Titles == {"", "x"}
NewTitles == {"Review"}
Descriptions == {""}
StartStrings == {<<>>, <<"not-a-date">>, <<"2024-01-01">>, <<"2024-01-01", " ", "09:00:00">>}
EndStrings == {<<"not-a-date">>, <<"2024-01-01", "T", "10:00:00">>}
AttendeeLists == {<<>>, <<"a@example.com">>}
EventIds == 1..MaxEvents

Opt(S) == {None} \cup {Some(v) : v \in S}

----------------------------------------------------------------------------
(* The remote calendar service *)

(* events().get: the event, or HttpError when there is none with that id *)
RemoteHas(r, id) == id \in DOMAIN r

(* events().insert / events().update *)
RemotePut(r, id, body) == [x \in DOMAIN r \cup {id} |-> IF x = id THEN body ELSE r[x]]

(* events().delete(...).execute() *)
\* faulty variant: the request is built but .execute() is never called
RemoteDeleteNotExecuted(r, id) == r
RemoteDelete(r, id) == [x \in DOMAIN r \ {id} |-> r[x]]

InitialEvent ==
    [id |-> 1, summary |-> "Standup", description |-> "daily",
     start |-> [dateTime |-> <<"2024-01-01", "T", "09:00:00">>, timeZone |-> "UTC"],
     end |-> [dateTime |-> <<"2024-01-01", "T", "10:00:00">>, timeZone |-> "UTC"]]

----------------------------------------------------------------------------
(* Initial state: no process is running.  The token file is absent, holds  *)
(* bytes that are no pickle, or holds a pickled Credential of any kind.     *)

InitCredentials ==
    [token : {0, 1}, expired : BOOLEAN, refresh_token : BOOLEAN]

Init ==
    /\ pc = "idle"
    /\ command = None
    /\ args = None
    /\ creds = None
    /\ loaded = None
    /\ service = None
    /\ out = <<>>
    /\ exc = None
    /\ result = None
    /\ requests = <<>>
    /\ refreshCount = 0
    /\ consentCount = 0
    /\ secretReads = 0
    /\ tokenWrites = 0
    /\ tokenFile \in {None, Some(Garbage)} \cup {Some(pickle_dump(c)) : c \in InitCredentials}
    /\ credentialsFile \in BOOLEAN
    /\ remote = RemotePut(<<>>, 1, InitialEvent)
    /\ nextId = 2
    /\ deleted = {}
    /\ nextToken = 2
    /\ runs = 0

----------------------------------------------------------------------------
(* main(), lines 207-214: parse the arguments; without a subcommand print  *)
(* the help and return, otherwise construct the CalendarManager.           *)

Commands == {"list", "create", "update", "delete"}

main(cmd) ==
    /\ pc = "idle"
    /\ runs < MaxRuns
    /\ runs' = runs + 1
    /\ command' = cmd
    /\ IF cmd = None
       THEN /\ out' = <<"help">>
            /\ pc' = "exit"
       ELSE /\ out' = <<>>
            /\ pc' = "auth_load"
    /\ UNCHANGED <<args, creds, loaded, service, exc, result, requests,
                   refreshCount, consentCount, secretReads, tokenWrites>>
    /\ UNCHANGED envVars

(* The process ends: by returning from main() or by an uncaught exception.  *)
(* Nothing of its memory survives.                                          *)
ProcessExit ==
    /\ pc \in {"exit", "crashed"}
    /\ pc' = "idle"
    /\ command' = None
    /\ args' = None
    /\ creds' = None
    /\ loaded' = None
    /\ service' = None
    /\ out' = <<>>
    /\ exc' = None
    /\ result' = None
    /\ requests' = <<>>
    /\ refreshCount' = 0
    /\ consentCount' = 0
    /\ secretReads' = 0
    /\ tokenWrites' = 0
    /\ UNCHANGED <<runs, tokenFile, credentialsFile, remote, nextId, deleted, nextToken>>

(* Time passes between invocations: the expiry of the stored access token   *)
(* is reached, creds.expired is true from then on.                          *)
TokenExpires ==
    /\ pc = "idle"
    /\ tokenFile # None
    /\ pickle_load(tokenFile[1]).ok
    /\ ~pickle_load(tokenFile[1]).value.expired
    /\ tokenFile' = Some(pickle_dump([pickle_load(tokenFile[1]).value EXCEPT !.expired = TRUE]))
    /\ UNCHANGED <<pc, runs, credentialsFile, remote, nextId, deleted, nextToken>>
    /\ UNCHANGED procVars

----------------------------------------------------------------------------
(* CalendarManager.authenticate *)

(* lines 32-36 *)
AuthLoad ==
    /\ pc = "auth_load"
    /\ IF tokenFile = None
       THEN /\ creds' = None
            /\ loaded' = None
            /\ pc' = "auth_check"
            /\ exc' = exc
       ELSE LET r == pickle_load(tokenFile[1]) IN
            IF r.ok
            THEN /\ creds' = Some(r.value)
                 /\ loaded' = Some(r.value)
                 /\ pc' = "auth_check"
                 /\ exc' = exc
            ELSE /\ pc' = "crashed"
                 /\ exc' = Some("UnpicklingError")
                 /\ UNCHANGED <<creds, loaded>>
    /\ UNCHANGED <<command, args, service, out, result, requests,
                   refreshCount, consentCount, secretReads, tokenWrites, runs>>
    /\ UNCHANGED envVars

(* lines 38-40: creds.refresh(Request()) *)
AuthRefresh ==
    /\ pc = "auth_check"
    /\ NeedsAuth(creds)
    /\ CanRefresh(creds)
    /\ refreshCount' = refreshCount + 1
    /\ \E ok \in BOOLEAN :
          IF ok
          THEN /\ creds' = Some([creds[1] EXCEPT !.token = nextToken,
                                                 !.expired = FALSE])
               /\ nextToken' = nextToken + 1
               /\ pc' = "auth_save"
               /\ exc' = exc
          ELSE /\ pc' = "crashed"
               /\ exc' = Some("RefreshError")
               /\ UNCHANGED <<creds, nextToken>>
    /\ UNCHANGED <<command, args, loaded, service, out, result, requests,
                   consentCount, secretReads, tokenWrites, runs>>
    /\ UNCHANGED <<tokenFile, credentialsFile, remote, nextId, deleted>>

(* lines 41-49: the interactive consent flow, or the return at line 45 *)
AuthConsent ==
    /\ pc = "auth_check"
    /\ NeedsAuth(creds)
    /\ ~CanRefresh(creds)
    /\ IF CredentialsMissing(credentialsFile)
       THEN /\ out' = out \o <<"credentials_not_found", "download_hint">>
            /\ pc' = "dispatch"
            /\ UNCHANGED <<creds, exc, secretReads, consentCount, nextToken>>
       ELSE /\ secretReads' = secretReads + 1
            /\ out' = out
            /\ IF ~credentialsFile
               THEN /\ pc' = "crashed"
                    /\ exc' = Some("FileNotFoundError")
                    /\ UNCHANGED <<creds, consentCount, nextToken>>
               ELSE \E outcome \in {"ok", "bad_secrets", "denied"} :
                      CASE outcome = "ok" ->
                             /\ consentCount' = consentCount + 1
                             /\ creds' = Some([token |-> nextToken,
                                               expired |-> FALSE,
                                               refresh_token |-> TRUE])
                             /\ nextToken' = nextToken + 1
                             /\ pc' = "auth_save"
                             /\ exc' = exc
                        [] outcome = "bad_secrets" ->
                             /\ pc' = "crashed"
                             /\ exc' = Some("ValueError")
                             /\ UNCHANGED <<creds, consentCount, nextToken>>
                        [] outcome = "denied" ->
                             /\ consentCount' = consentCount + 1
                             /\ pc' = "crashed"
                             /\ exc' = Some("OAuthError")
                             /\ UNCHANGED <<creds, nextToken>>
    /\ UNCHANGED <<command, args, loaded, service, result, requests,
                   refreshCount, tokenWrites, runs>>
    /\ UNCHANGED <<tokenFile, credentialsFile, remote, nextId, deleted>>

(* lines 51-52: open(TOKEN_FILE, 'wb') truncates, pickle.dump writes *)
\* faulty variant: the credential is never dumped
AuthSaveNoWrite ==
    /\ pc = "auth_save"
    /\ pc' = "auth_build"
    /\ UNCHANGED <<command, args, creds, loaded, service, out, exc, result, requests,
                   refreshCount, consentCount, secretReads, tokenWrites, runs>>
    /\ UNCHANGED envVars

AuthSave ==
    /\ pc = "auth_save"
    /\ tokenWrites' = tokenWrites + 1
    /\ \E outcome \in {"ok", "open_failed", "dump_failed"} :
          CASE outcome = "ok" ->
                 /\ tokenFile' = Some(pickle_dump(creds[1]))
                 /\ pc' = "auth_build"
                 /\ exc' = exc
            [] outcome = "open_failed" ->
                 /\ tokenFile' = tokenFile
                 /\ pc' = "crashed"
                 /\ exc' = Some("OSError")
            [] outcome = "dump_failed" ->
                 /\ tokenFile' = Some(Truncated)
                 /\ pc' = "crashed"
                 /\ exc' = Some("OSError")
    /\ UNCHANGED <<command, args, creds, loaded, service, out, result, requests,
                   refreshCount, consentCount, secretReads, runs>>
    /\ UNCHANGED <<credentialsFile, remote, nextId, deleted, nextToken>>

(* lines 54-55, reached from line 38 directly when the credential is valid *)
AuthBuild ==
    /\ \/ pc = "auth_build"
       \/ pc = "auth_check" /\ ~NeedsAuth(creds)
    /\ service' = creds
    /\ out' = Append(out, "authenticated")
    /\ pc' = "dispatch"
    /\ UNCHANGED <<command, args, creds, loaded, exc, result, requests,
                   refreshCount, consentCount, secretReads, tokenWrites, runs>>
    /\ UNCHANGED envVars

(* main(), lines 216-218 *)
MainNoService ==
    /\ pc = "dispatch"
    /\ service = None
    /\ out' = Append(out, "auth_failed")
    /\ pc' = "exit"
    /\ UNCHANGED <<command, args, creds, loaded, service, exc, result, requests,
                   refreshCount, consentCount, secretReads, tokenWrites, runs>>
    /\ UNCHANGED envVars

----------------------------------------------------------------------------
(* The calendar operations.  Each handler is one action: it runs to its     *)
(* return.  A request to the calendar service may fail with HttpError.      *)

Ready(cmd) ==
    /\ pc = "dispatch"
    /\ service # None
    /\ command = Some(cmd)

HandlerFrame ==
    /\ UNCHANGED <<command, creds, loaded, service, exc,
                   refreshCount, consentCount, secretReads, tokenWrites, runs>>
    /\ UNCHANGED <<tokenFile, credentialsFile, nextToken>>

RECURSIVE SortedIds(_)
SortedIds(S) ==
    IF S = {} THEN <<>>
    ELSE LET m == CHOOSE x \in S : \A y \in S : x <= y
         IN <<m>> \o SortedIds(S \ {m})

(* list_events, lines 57-98 *)
list_events(max_results, days_ahead) ==
    /\ Ready("list")
    /\ args' = [max_results |-> max_results, days_ahead |-> days_ahead]
    /\ requests' = <<"list">>
    /\ \E fail \in BOOLEAN :
          IF fail
          THEN /\ out' = Append(out, "http_error")
               /\ result' = Some(<<>>)
          ELSE LET all == SortedIds(DOMAIN remote)
                   events == SubSeq(all, 1, IF Len(all) < max_results THEN Len(all)
                                                                      ELSE max_results)
               IN IF events = <<>>
                  THEN /\ out' = Append(out, "no_events")
                       /\ result' = Some(<<>>)
                  ELSE /\ out' = out \o <<"header">> \o [i \in 1..Len(events) |-> "event_line"]
                       /\ result' = Some(events)
    /\ pc' = "exit"
    /\ UNCHANGED <<remote, nextId, deleted>>
    /\ HandlerFrame

(* create_event, lines 104-105: both strings are parsed before anything is sent *)
\* faulty variant: end_time is sent as given
CreateValidatesStartOnly(start_time, end_time) == fromisoformat(start_time).ok
CreateValidates(start_time, end_time) ==
    fromisoformat(start_time).ok /\ fromisoformat(end_time).ok

(* create_event, lines 107-121: the request body *)
CreateBody(title, start_time, end_time, description, attendees) ==
    LET event == [summary |-> title,
                  description |-> description,
                  start |-> [dateTime |-> isoformat(fromisoformat(start_time).value),
                             timeZone |-> "UTC"],
                  end |-> [dateTime |-> IF fromisoformat(end_time).ok
                                        THEN isoformat(fromisoformat(end_time).value)
                                        ELSE end_time,
                           timeZone |-> "UTC"]]
    IN IF attendees # <<>>
       THEN event @@ [attendees |-> [i \in 1..Len(attendees) |-> [email |-> attendees[i]]]]
       ELSE event

(* create_event, lines 100-135 *)
create_event(title, start_time, end_time, description, attendees) ==
    /\ Ready("create")
    /\ args' = [title |-> title, start |-> start_time, end |-> end_time,
                description |-> description, attendees |-> attendees]
    /\ IF ~CreateValidates(start_time, end_time)
       THEN /\ out' = Append(out, "invalid_datetime")
            /\ result' = Some(None)
            /\ requests' = <<>>
            /\ UNCHANGED <<remote, nextId>>
       ELSE /\ requests' = <<"insert">>
            /\ \E fail \in BOOLEAN :
                  IF fail \/ nextId > MaxEvents
                  THEN /\ out' = Append(out, "http_error")
                       /\ result' = Some(None)
                       /\ UNCHANGED <<remote, nextId>>
                  ELSE /\ remote' = RemotePut(remote, nextId,
                                       CreateBody(title, start_time, end_time,
                                                  description, attendees)
                                       @@ [id |-> nextId])
                       /\ nextId' = nextId + 1
                       /\ out' = Append(out, "created")
                       /\ result' = Some(Some(nextId))
    /\ pc' = "exit"
    /\ UNCHANGED deleted
    /\ HandlerFrame

(* update_event, lines 143-152: the fetched event with the arguments applied; *)
(* a date-time that does not parse raises ValueError                          *)
Merge(event, title, start_time, end_time, description) ==
    LET e1 == IF TruthyStr(title) THEN [event EXCEPT !.summary = title[1]] ELSE event
        e2 == IF description # None THEN [e1 EXCEPT !.description = description[1]] ELSE e1
        s  == IF TruthySeq(start_time) THEN fromisoformat(start_time[1]) ELSE [ok |-> TRUE]
        e3 == IF TruthySeq(start_time) /\ s.ok
              THEN [e2 EXCEPT !.start.dateTime = isoformat(s.value)] ELSE e2
        e  == IF TruthySeq(end_time) THEN fromisoformat(end_time[1]) ELSE [ok |-> TRUE]
        e4 == IF TruthySeq(end_time) /\ e.ok
              THEN [e3 EXCEPT !.end.dateTime = isoformat(e.value)] ELSE e3
    IN IF s.ok /\ e.ok THEN [ok |-> TRUE, value |-> e4] ELSE [ok |-> FALSE]

(* update_event, lines 137-165 *)
update_event(event_id, title, start_time, end_time, description) ==
    /\ Ready("update")
    /\ args' = [event_id |-> event_id, title |-> title, start |-> start_time,
                end |-> end_time, description |-> description]
    /\ \E getFail \in BOOLEAN :
          IF getFail \/ ~RemoteHas(remote, event_id)
          THEN /\ requests' = <<"get">>
               /\ out' = Append(out, "http_error")
               /\ result' = Some(FALSE)
               /\ UNCHANGED remote
          ELSE LET m == Merge(remote[event_id], title, start_time, end_time, description) IN
               IF ~m.ok
               THEN /\ requests' = <<"get">>
                    /\ out' = Append(out, "invalid_datetime")
                    /\ result' = Some(FALSE)
                    /\ UNCHANGED remote
               ELSE /\ requests' = <<"get", "update">>
                    /\ \E updateFail \in BOOLEAN :
                          IF updateFail
                          THEN /\ out' = Append(out, "http_error")
                               /\ result' = Some(FALSE)
                               /\ UNCHANGED remote
                          ELSE /\ remote' = RemotePut(remote, event_id, m.value)
                               /\ out' = Append(out, "updated")
                               /\ result' = Some(TRUE)
    /\ pc' = "exit"
    /\ UNCHANGED <<nextId, deleted>>
    /\ HandlerFrame

(* delete_event, lines 167-176 *)
delete_event(event_id) ==
    /\ Ready("delete")
    /\ args' = [event_id |-> event_id]
    /\ requests' = <<"delete">>
    /\ \E fail \in BOOLEAN :
          IF fail \/ ~RemoteHas(remote, event_id)
          THEN /\ out' = Append(out, "http_error")
               /\ result' = Some(FALSE)
               /\ UNCHANGED <<remote, deleted>>
          ELSE /\ remote' = RemoteDelete(remote, event_id)
               /\ deleted' = deleted \cup {event_id}
               /\ out' = Append(out, "deleted")
               /\ result' = Some(TRUE)
    /\ pc' = "exit"
    /\ UNCHANGED nextId
    /\ HandlerFrame

----------------------------------------------------------------------------
MaxResults == {1, 10}
DaysAhead == {7}

ListEvents == \E m \in MaxResults, d \in DaysAhead : list_events(m, d)

CreateEvent ==
    \E t \in NewTitles, s \in StartStrings, e \in EndStrings,
       d \in Descriptions, a \in AttendeeLists : create_event(t, s, e, d, a)

UpdateEvent ==
    \E id \in EventIds, t \in Opt(Titles), s \in Opt(StartStrings),
       e \in Opt(EndStrings), d \in Opt(Descriptions) : update_event(id, t, s, e, d)

DeleteEvent == \E id \in EventIds : delete_event(id)

Main == \E cmd \in Opt(Commands) : main(cmd)

Next ==
    \/ Main
    \/ AuthLoad
    \/ AuthRefresh
    \/ AuthConsent
    \/ AuthSave
    \/ AuthBuild
    \/ MainNoService
    \/ ListEvents
    \/ CreateEvent
    \/ UpdateEvent
    \/ DeleteEvent
    \/ ProcessExit
    \/ TokenExpires

Spec == Init /\ [][Next]_vars

----------------------------------------------------------------------------
(* Properties *)

(* The load step of authenticate has run and returned. *)
AfterLoad ==
    /\ command # None
    /\ pc \notin {"idle", "auth_load"}
    /\ exc # Some("UnpicklingError")

StoredValid == loaded # None /\ loaded[1].token # 0 /\ ~loaded[1].expired

StoredRefreshable ==
    loaded # None /\ ~StoredValid /\ loaded[1].expired /\ loaded[1].refresh_token

(* A date-time string the parser rejects. *)
Rejected(s) == ~fromisoformat(s).ok

(* C1: a stored Credential that is valid is used unchanged to build the     *)
(* session: no refresh exchange, no consent flow, no read of the           *)
(* client-secret file, no write to the token store, and authenticate does  *)
(* not fail.                                                                *)
C1_ValidCredentialUsedAsIs ==
    (AfterLoad /\ StoredValid) =>
        /\ refreshCount = 0
        /\ consentCount = 0
        /\ secretReads = 0
        /\ tokenWrites = 0
        /\ creds = loaded
        /\ tokenFile = Some(pickle_dump(loaded[1]))
        /\ pc # "crashed"
        /\ pc \in {"dispatch", "exit"} => service = loaded

C1_Witness ==
    /\ pc = "exit"
    /\ AfterLoad
    /\ StoredValid
    /\ service = loaded

(* C2: a stored Credential that is expired and has a refresh token is      *)
(* refreshed exactly once, the consent flow never starts, and the          *)
(* refreshed Credential is in the token store before the session is built. *)
C2_ExpiredRefreshedOnceAndPersisted ==
    (AfterLoad /\ StoredRefreshable) =>
        /\ consentCount = 0
        /\ secretReads = 0
        /\ refreshCount = (IF pc = "auth_check" THEN 0 ELSE 1)
        /\ tokenWrites = (IF pc \in {"auth_check", "auth_save"} \/ exc = Some("RefreshError")
                          THEN 0 ELSE 1)
        /\ pc \in {"auth_build", "dispatch", "exit"} =>
              /\ creds[1].token # loaded[1].token
              /\ ~creds[1].expired
              /\ tokenFile = Some(pickle_dump(creds[1]))
        /\ pc \in {"dispatch", "exit"} => service = creds

C2_Witness ==
    /\ pc = "exit"
    /\ AfterLoad
    /\ StoredRefreshable
    /\ service # None
    /\ refreshCount = 1
    /\ tokenWrites = 1

(* C3: whenever a session exists, on every path, the token store holds the *)
(* Credential the session was built from; a refreshed or newly obtained    *)
(* Credential is in the store before the session is built.                 *)
C3_SessionCredentialPersisted ==
    /\ service # None => tokenFile = Some(pickle_dump(service[1]))
    /\ pc = "auth_build" => tokenFile = Some(pickle_dump(creds[1]))

C3_Witness ==
    /\ pc = "exit"
    /\ service # None
    /\ consentCount = 1
    /\ tokenWrites = 1

(* C4: when the consent flow is required (nothing stored, or a stored      *)
(* Credential that is invalid and cannot be refreshed) and the             *)
(* client-secret file is absent, the failure is printed, no session is     *)
(* created, the token store is not written, nothing is retried and no      *)
(* calendar operation is invoked, whatever the subcommand.                 *)
C4_MissingClientSecretIsFatal ==
    (AfterLoad /\ pc # "auth_check" /\ ~StoredValid /\ ~StoredRefreshable
        /\ ~credentialsFile) =>
        /\ pc \in {"dispatch", "exit"}
        /\ service = None
        /\ tokenWrites = 0
        /\ refreshCount = 0
        /\ consentCount = 0
        /\ secretReads = 0
        /\ requests = <<>>
        /\ result = None
        /\ args = None
        /\ out = IF pc = "dispatch"
                 THEN <<"credentials_not_found", "download_hint">>
                 ELSE <<"credentials_not_found", "download_hint", "auth_failed">>

C4_Witness ==
    /\ pc = "exit"
    /\ AfterLoad
    /\ ~StoredValid
    /\ ~StoredRefreshable
    /\ ~credentialsFile
    /\ command = Some("delete")
    /\ out = <<"credentials_not_found", "download_hint", "auth_failed">>

(* C5: no error escapes to crash the process: every run ends having        *)
(* printed a success confirmation or a failure message.                    *)
C5_NoErrorEscapes ==
    /\ pc # "crashed"
    /\ exc = None
    /\ pc = "exit" => out # <<>>

(* C6: when the token file exists but its contents do not parse, the load  *)
(* is treated as "absent": authenticate goes on with no Credential towards *)
(* the consent flow instead of failing.                                    *)
C6_ParseFailureTreatedAsAbsent ==
    [][(pc = "auth_load" /\ tokenFile # None /\ ~pickle_load(tokenFile[1]).ok)
          => (pc' = "auth_check" /\ creds' = None /\ exc' = None)]_vars

C8_UpdateMalformedSendsNothing ==
    (pc = "exit" /\ command = Some("update") /\ service # None
        /\ \/ (args.start # None /\ Rejected(args.start[1]))
           \/ (args.end # None /\ Rejected(args.end[1])))
        => (requests = <<>> /\ result = Some(FALSE))

(* The fetched event with exactly the supplied fields replaced. *)
Supplied(s) == IF Rejected(s) THEN s ELSE isoformat(fromisoformat(s).value)

Patched(event, a) ==
    [event EXCEPT
        !.summary = IF a.title # None THEN a.title[1] ELSE @,
        !.description = IF a.description # None THEN a.description[1] ELSE @,
        !.start.dateTime = IF a.start # None THEN Supplied(a.start[1]) ELSE @,
        !.end.dateTime = IF a.end # None THEN Supplied(a.end[1]) ELSE @]

(* C9: update is a merge patch: the record written back is the fetched     *)
(* record with exactly the supplied fields, a field supplied as the empty  *)
(* string included, replaced by the supplied values.                       *)
C9_UpdateIsMergePatch ==
    [][(Ready("update") /\ pc' = "exit" /\ result' = Some(TRUE))
          => remote' = RemotePut(remote, args'.event_id,
                                 Patched(remote[args'.event_id], args'))]_vars

(* C10: after a successful delete(id), update(id, ...) fails with the      *)
(* remote error of the fetch, sends no write request, and neither          *)
(* re-creates nor modifies any remote event.                               *)
C10_UpdateAfterDeleteFails ==
    [][(Ready("update") /\ pc' = "exit" /\ args'.event_id \in deleted)
          => /\ result' = Some(FALSE)
             /\ requests' = <<"get">>
             /\ out' = Append(out, "http_error")
             /\ remote' = remote
             /\ args'.event_id \notin DOMAIN remote']_vars

C10_Witness ==
    /\ pc = "exit"
    /\ command = Some("update")
    /\ service # None
    /\ args.event_id \in deleted
    /\ args.title = Some("x")
    /\ result = Some(FALSE)
    /\ requests = <<"get">>

=============================================================================
